---- MODULE Spec2Model ----
(***************************************************************************)
(* A model of oselvar/openapi-validator: the route contract of the         *)
(* example route, the Validator it is checked with, the error middleware,  *)
(* the Express router adapter (addRoute) and the AWS Lambda gateway        *)
(* adapter (toProxyHandler, toRequest, toResult).                          *)
(*                                                                         *)
(* Text is modelled as a sequence of one-character strings, so that the    *)
(* regular expressions and case conversions of the source are computed     *)
(* character by character.                                                 *)
(***************************************************************************)
EXTENDS Integers, Sequences, FiniteSets, TLC

VARIABLES
    endpoint,     \* addRoute: the Endpoint {method, pathPattern} being registered
    router,       \* addRoute: the routes registered on the Express router
    vcall,        \* Validator: the last call made on it, with its outcome
    express,      \* the Express adapter serving one request
    lambda        \* the gateway proxy handler serving one event

vars == <<endpoint, router, vcall, express, lambda>>

(***************************************************************************)
(* Bounds of the model.                                                    *)
(***************************************************************************)
MaxPathLen == 8
MaxValueLen == 1
MaxHeaders == 2
MaxQuery == 2

(***************************************************************************)
(* Generic helpers on sequences.                                           *)
(***************************************************************************)
SeqsUpTo(S, n) == UNION {[1..k -> S] : k \in 0..n}

(***************************************************************************)
(* src/express/index.ts: addRoute, path and method conversion.             *)
(***************************************************************************)

\* The characters path templates are drawn from: the separator, the two
\* braces and a name character.
PathChars == {"/", "{", "}", "a"}

PathTemplates == SeqsUpTo(PathChars, MaxPathLen)

\* The endpoints' methods, in the spellings HttpMethod and RouteConfig use.
HttpMethods ==
    { <<"G","E","T">>, <<"g","e","t">>, <<"P","U","T">>, <<"P","u","t">> }

\* The position of the first "}" at or after position i of path, 0 if none.
RECURSIVE FirstClose(_, _)
FirstClose(path, i) ==
    IF i > Len(path) THEN 0
    ELSE IF path[i] = "}" THEN i
    ELSE FirstClose(path, i + 1)

\* path.replace(/{([^}]+)}/g, ':$1') from position i on: a match starts at a
\* "{" that is followed by at least one character other than "}" and then a
\* "}"; matches are replaced left to right and do not overlap.
RECURSIVE ReplaceFrom(_, _)
ReplaceFrom(path, i) ==
    IF i > Len(path) THEN <<>>
    ELSE LET j == FirstClose(path, i + 1) IN
         IF path[i] = "{" /\ j > i + 1
         THEN <<":">> \o SubSeq(path, i + 1, j - 1) \o ReplaceFrom(path, j + 1)
         ELSE <<path[i]>> \o ReplaceFrom(path, i + 1)

\* A non-global replace: only the first match is rewritten.
RECURSIVE ReplaceFirstFrom(_, _)
ReplaceFirstFrom(path, i) ==
    IF i > Len(path) THEN <<>>
    ELSE LET j == FirstClose(path, i + 1) IN
         IF path[i] = "{" /\ j > i + 1
         THEN <<":">> \o SubSeq(path, i + 1, j - 1) \o SubSeq(path, j + 1, Len(path))
         ELSE <<path[i]>> \o ReplaceFirstFrom(path, i + 1)

ExpressPathFirstOnly(path) == ReplaceFirstFrom(path, 1)

ExpressPath(path) == ReplaceFrom(path, 1)

\* String.prototype.toLowerCase on one character.
ToLowerChar(c) ==
    CASE c = "G" -> "g" [] c = "E" -> "e" [] c = "T" -> "t"
      [] c = "P" -> "p" [] c = "U" -> "u"
      [] OTHER -> c

ToLowerCase(method) == [i \in 1..Len(method) |-> ToLowerChar(method[i])]

\* router[lowerCaseMethod](expressPath, callback)
Registration(ep) ==
    [method |-> ToLowerCase(ep.method), path |-> ExpressPath(ep.pathPattern)]

(***************************************************************************)
(* The Schema Capability (zod), as far as the schemas of the example route *)
(* use it: objects of string fields, each field checked by an unanchored   *)
(* regular expression, required unless marked optional.                    *)
(***************************************************************************)

\* Characters of string values: two digits, a lower-case and an upper-case letter.
ValueChars == {"1", "2", "x", "X"}
Digits == {"1", "2"}
LowerLetters == {"x"}

RawValues == SeqsUpTo(ValueChars, MaxValueLen)

ObjectKeys == {"thingId", "name", "description", "foo"}

\* Objects with string members: the raw params mappings and the parsed JSON
\* bodies. At most two members are present.
Objects ==
    UNION { [D -> RawValues] : D \in {K \in SUBSET ObjectKeys : Cardinality(K) <= 2} }

\* regex.test(value) for the two unanchored patterns of the schemas:
\* /[\d]+/ finds a digit anywhere, /[a-z]+/ finds a lower-case letter anywhere.
RegexTest(pattern, value) ==
    CASE pattern = "[\\d]+" -> \E i \in 1..Len(value) : value[i] \in Digits
      [] pattern = "[a-z]+" -> \E i \in 1..Len(value) : value[i] \in LowerLetters

\* The params schema with the pattern of the body fields.
ThingParamsSchemaWrongRegex ==
    << [name |-> "thingId", regex |-> "[a-z]+", optional |-> FALSE] >>

ThingParamsSchema ==
    << [name |-> "thingId", regex |-> "[\\d]+", optional |-> FALSE] >>

ThingQuerySchema ==
    << [name |-> "thingId", regex |-> "[\\d]+", optional |-> TRUE] >>

\* The body schema with both fields optional.
ThingBodySchemaLax ==
    << [name |-> "name", regex |-> "[a-z]+", optional |-> TRUE],
       [name |-> "description", regex |-> "[a-z]+", optional |-> TRUE] >>

ThingBodySchema ==
    << [name |-> "name", regex |-> "[a-z]+", optional |-> FALSE],
       [name |-> "description", regex |-> "[a-z]+", optional |-> FALSE] >>

\* The issues one field of the schema raises on the object.
FieldIssues(f, obj) ==
    IF f.name \notin DOMAIN obj
    THEN IF f.optional THEN <<>>
         ELSE << [path |-> <<f.name>>, message |-> "Required"] >>
    ELSE IF RegexTest(f.regex, obj[f.name]) THEN <<>>
         ELSE << [path |-> <<f.name>>, message |-> "Invalid"] >>

RECURSIVE SchemaIssues(_, _)
SchemaIssues(schema, obj) ==
    IF schema = <<>> THEN <<>>
    ELSE FieldIssues(Head(schema), obj) \o SchemaIssues(Tail(schema), obj)

SchemaKeys(schema) == {schema[i].name : i \in 1..Len(schema)}

\* schema.safeParse(value): value is [defined |-> BOOLEAN, obj |-> object].
\* A parsed object keeps the members the schema names.
SafeParse(schema, value) ==
    IF ~value.defined
    THEN [success |-> FALSE, issues |-> << [path |-> <<>>, message |-> "Required"] >>]
    ELSE LET issues == SchemaIssues(schema, value.obj) IN
         IF issues = <<>>
         THEN [success |-> TRUE,
               data |-> [k \in DOMAIN value.obj \cap SchemaKeys(schema) |-> value.obj[k]]]
         ELSE [success |-> FALSE, issues |-> issues]

(***************************************************************************)
(* The route contract of the example route.                                *)
(***************************************************************************)
JsonType == <<"application/json">>
TextType == <<"text/plain">>

Absent == [declared |-> FALSE]

\* Response404, Response415, Response422, Response500: a description and no
\* content schema.
ResponseNoContent == [description |-> "error", content |-> <<>>]

routeConfig ==
    [ method   |-> <<"p","o","s","t">>,
      path     |-> <<"/","t","h","i","n","g","s","/","{","t","h","i","n","g","I","d","}">>,
      params   |-> [declared |-> TRUE, schema |-> ThingParamsSchema],
      query    |-> [declared |-> TRUE, schema |-> ThingQuerySchema],
      body     |-> [declared |-> TRUE,
                    content |-> << [type |-> "application/json", schema |-> ThingBodySchema] >>],
      responses |-> << [status |-> 200,
                        def |-> [description |-> "Create a thing",
                                 content |-> << [type |-> "application/json",
                                                 schema |-> ThingBodySchema] >>]],
                       [status |-> 404, def |-> ResponseNoContent],
                       [status |-> 415, def |-> ResponseNoContent],
                       [status |-> 422, def |-> ResponseNoContent],
                       [status |-> 500, def |-> ResponseNoContent] >> ]

\* The contracts validators are constructed from: the example route, and the
\* example route with its params schema replaced or with its params or body
\* declaration left out.
Contracts ==
    { routeConfig,
      [routeConfig EXCEPT !.params = [declared |-> TRUE, schema |-> ThingBodySchema]],
      [routeConfig EXCEPT !.params = [declared |-> TRUE, schema |-> ThingQuerySchema]],
      [routeConfig EXCEPT !.params = Absent],
      [routeConfig EXCEPT !.body = Absent] }

(***************************************************************************)
(* The Validator.                                                          *)
(***************************************************************************)
Returned(v) == [ok |-> TRUE, value |-> v]

Raised(kind, status, issues) ==
    [ok |-> FALSE, error |-> [kind |-> kind, status |-> status, issues |-> issues]]

\* Validator.params(rawParams)
validateParams(contract, raw) ==
    IF ~contract.params.declared THEN Returned(raw)
    ELSE LET r == SafeParse(contract.params.schema, raw) IN
         IF r.success THEN Returned([defined |-> TRUE, obj |-> r.data])
         ELSE Raised("UnprocessableEntity", 422, r.issues)

\* A content-type header is the sequence of its ";"-separated parts, <<>> when
\* the header is missing; normalising keeps the media type and drops the
\* parameters.
ContentTypeHeaders ==
    { <<>>, JsonType, <<"application/json", "charset=utf-8">>, TextType,
      <<"text/plain", "charset=utf-8">> }

NormalizeContentType(header) == IF header = <<>> THEN "" ELSE Head(header)

ContentSchemas(content, type) ==
    {content[i].schema : i \in {k \in 1..Len(content) : content[k].type = type}}

IsJsonType(type) == type = "application/json"

\* Bodies: empty, text that is not JSON, or JSON text of an object.
Bodies ==
    { [kind |-> "empty", obj |-> <<>>], [kind |-> "text", obj |-> <<>>] }
      \cup { [kind |-> "json", obj |-> o] : o \in Objects }

Requests == [contentType : ContentTypeHeaders, body : Bodies]

\* Validator.body(request)
validateBody(contract, request) ==
    IF ~contract.body.declared THEN Returned(request.body)
    ELSE LET type == NormalizeContentType(request.contentType)
             schemas == ContentSchemas(contract.body.content, type)
         IN
         IF schemas = {} THEN Raised("UnsupportedMediaType", 415, <<>>)
         ELSE IF ~IsJsonType(type) THEN Returned(request.body)
         ELSE IF request.body.kind # "json"
              THEN Raised("UnsupportedMediaType", 415, <<>>)
         ELSE LET r == SafeParse(CHOOSE s \in schemas : TRUE,
                                 [defined |-> TRUE, obj |-> request.body.obj]) IN
              IF r.success THEN Returned([kind |-> "json", obj |-> r.data])
              ELSE Raised("UnprocessableEntity", 422, r.issues)

ResponseStatuses == {200, 201, 404}

Responses == [status : ResponseStatuses, contentType : ContentTypeHeaders, body : Bodies]

ResponseDefs(contract, status) ==
    {contract.responses[i].def :
        i \in {k \in 1..Len(contract.responses) : contract.responses[k].status = status}}

\* Validator.validate(response)
validateResponse(contract, response) ==
    LET defs == ResponseDefs(contract, response.status) IN
    IF defs = {} THEN Raised("Internal", 500, <<>>)
    ELSE LET def == CHOOSE d \in defs : TRUE
             type == NormalizeContentType(response.contentType)
             schemas == ContentSchemas(def.content, type)
         IN
         IF def.content = <<>> THEN Returned(response)
         ELSE IF schemas = {} THEN Raised("Internal", 500, <<>>)
         ELSE IF response.body.kind # "json" THEN Raised("Internal", 500, <<>>)
         ELSE LET r == SafeParse(CHOOSE s \in schemas : TRUE,
                                 [defined |-> TRUE, obj |-> response.body.obj]) IN
              IF r.success THEN Returned(response)
              ELSE Raised("Internal", 500, r.issues)

\* Response.json(obj)
ResponseJson(obj) ==
    [status |-> 200, contentType |-> JsonType, body |-> [kind |-> "json", obj |-> obj]]

respondWithBadTypeParams == [thingId |-> <<"2">>]

\* The example handler without its call of validator.body.
thingHandlerSkipsBody(input, params) ==
    LET p == validateParams(routeConfig, params) IN
    IF ~p.ok THEN p
    ELSE IF p.value.obj["thingId"] = respondWithBadTypeParams["thingId"]
         THEN validateResponse(routeConfig, ResponseJson([foo |-> <<"b","a","r">>]))
         ELSE validateResponse(routeConfig, ResponseJson(input.body.obj))

\* thingHandler(input, init) with the validator of routeConfig; params is
\* init?.params.
thingHandler(input, params) ==
    LET p == validateParams(routeConfig, params) IN
    IF ~p.ok THEN p
    ELSE LET b == validateBody(routeConfig, input) IN
         IF ~b.ok THEN b
         ELSE IF p.value.obj["thingId"] = respondWithBadTypeParams["thingId"]
              THEN validateResponse(routeConfig, ResponseJson([foo |-> <<"b","a","r">>]))
              ELSE validateResponse(routeConfig, ResponseJson(b.value.obj))

Undefined == [defined |-> FALSE, obj |-> <<>>]

\* The raw params mappings a caller passes: an object, or undefined.
RawParams == {Undefined} \cup {[defined |-> TRUE, obj |-> o] : o \in Objects}

\* The params the example handler is called with: thingId alone, or undefined.
ThingParams ==
    {Undefined} \cup {[defined |-> TRUE, obj |-> [thingId |-> v]] : v \in RawValues}

(***************************************************************************)
(* Generic responses, and the Headers multi-map of the Fetch API.          *)
(***************************************************************************)

\* Header names in the order Headers iterates them (sorted).
SortedNames == <<"content-type", "set-cookie", "x-a">>

\* Header values: two plain values and one that holds a control character
\* (valid in a Fetch header, refused by node's res.setHeader).
HeaderValues == {"v1", "v2", "ctl"}

HeaderEntries == [name : {"set-cookie", "x-a"}, value : HeaderValues]

\* A response body: absent, a readable stream of text, or a stream that is
\* locked or already read.
ResponseBodies ==
    { [state |-> "null", text |-> ""], [state |-> "readable", text |-> "hello"],
      [state |-> "locked", text |-> "hello"] }

HandlerResponses ==
    [status : {200, 404}, headers : SeqsUpTo(HeaderEntries, MaxHeaders),
     body : ResponseBodies]

\* What a handler may throw: a ValidationError of some status, another Error,
\* or a value that is no Error.
ThrownValues ==
    [type : {"ValidationError"}, status : {404, 415, 422, 500}]
      \cup [type : {"Error", "string"}, status : {0}]

\* What one invocation of a fetch handler does: it returns a response, throws
\* synchronously or rejects. serializerOk tells whether toErrorResponse
\* returns for this error or throws.
HandlerOutcomes ==
    [kind : {"return"}, response : HandlerResponses]
      \cup [kind : {"throw", "reject"}, value : ThrownValues, serializerOk : BOOLEAN]

\* The values of the entries called name, in the order they were appended.
RECURSIVE ValuesOf(_, _)
ValuesOf(headers, name) ==
    IF headers = <<>> THEN <<>>
    ELSE IF Head(headers).name = name
         THEN <<Head(headers).value>> \o ValuesOf(Tail(headers), name)
         ELSE ValuesOf(Tail(headers), name)

RECURSIVE OnePerValue(_, _)
OnePerValue(name, values) ==
    IF values = <<>> THEN <<>>
    ELSE << [name |-> name, value |-> <<Head(values)>>] >>
           \o OnePerValue(name, Tail(values))

\* Headers.prototype.entries / forEach from the i-th name on, as the Fetch
\* standard defines the iteration: names sorted, the values of one name
\* combined into one entry (joined with ", ": the entry's value is the
\* sequence of the joined parts), except set-cookie, whose values are
\* iterated one entry each.
RECURSIVE EntriesFrom(_, _)
EntriesFrom(headers, i) ==
    IF i > Len(SortedNames) THEN <<>>
    ELSE LET name == SortedNames[i]
             values == ValuesOf(headers, name)
         IN (IF values = <<>> THEN <<>>
             ELSE IF name = "set-cookie" THEN OnePerValue(name, values)
             ELSE << [name |-> name, value |-> values] >>)
            \o EntriesFrom(headers, i + 1)

HeadersEntries(headers) == EntriesFrom(headers, 1)

\* Object.fromEntries(entries): a later entry of a name replaces an earlier one.
ObjectFromEntries(entries) ==
    [n \in {entries[i].name : i \in 1..Len(entries)} |->
        LET last == CHOOSE i \in 1..Len(entries) :
                       /\ entries[i].name = n
                       /\ \A j \in (i + 1)..Len(entries) : entries[j].name # n
        IN entries[last].value]

(***************************************************************************)
(* HTTP Error Model and Error Middleware.                                  *)
(***************************************************************************)

\* toHttpError(thrown): a ValidationError keeps its status, anything else is
\* Internal (500).
toHttpError(thrown) ==
    IF thrown.type = "ValidationError"
    THEN [status |-> thrown.status, message |-> "validation"]
    ELSE [status |-> 500, message |-> "Internal Server Error"]

\* toJsonErrorResponse(httpError)
toJsonErrorResponse(httpError) ==
    [status |-> httpError.status,
     headers |-> << [name |-> "content-type", value |-> "application/json"] >>,
     body |-> [state |-> "readable", text |-> httpError.message]]

\* The response of last resort, when the serializer itself fails.
FallbackResponse ==
    [status |-> 500,
     headers |-> << [name |-> "content-type", value |-> "text/plain"] >>,
     body |-> [state |-> "readable", text |-> "Internal Server Error"]]

Fulfilled(response) == [settled |-> "fulfilled", response |-> response]

Rejected(value) ==
    [settled |-> "rejected", response |-> FallbackResponse, value |-> value]

\* errorHandler(handler, toErrorResponse)(request), the handler behaving as
\* outcome says.
errorHandler(outcome) ==
    IF outcome.kind = "return" THEN Fulfilled(outcome.response)
    ELSE IF outcome.serializerOk
         THEN Fulfilled(toJsonErrorResponse(toHttpError(outcome.value)))
         ELSE Fulfilled(FallbackResponse)

\* The handler called directly: what it throws is not caught.
InvokeUnwrapped(outcome) ==
    IF outcome.kind = "return" THEN Fulfilled(outcome.response)
    ELSE Rejected(outcome.value)

\* const eh = errorHandler(handler, toErrorResponse); eh(request)
InvokeWrapped(outcome) == errorHandler(outcome)

(***************************************************************************)
(* src/express/index.ts: the callback addRoute registers.                  *)
(***************************************************************************)

\* The (key, value) pairs of a raw query string.
QueryPairs == { <<"a", "1">>, <<"a", "2">>, <<"b", "1">> }

Queries == SeqsUpTo(QueryPairs, MaxQuery)

\* Express's "query parser" setting: the default parser (an object), a
\* custom parser handing the raw string on, or parsing switched off ({}).
QueryParsers == {"qs", "raw", "off"}

ExpressMethods == {"GET", "POST"}

\* The distinct keys of the pairs, in the order of their first occurrence.
RECURSIVE KeysInOrder(_, _)
KeysInOrder(pairs, seen) ==
    IF pairs = <<>> THEN <<>>
    ELSE IF Head(pairs)[1] \in seen THEN KeysInOrder(Tail(pairs), seen)
    ELSE <<Head(pairs)[1]>> \o KeysInOrder(Tail(pairs), seen \cup {Head(pairs)[1]})

RECURSIVE QueryValues(_, _)
QueryValues(pairs, key) ==
    IF pairs = <<>> THEN <<>>
    ELSE IF Head(pairs)[1] = key
         THEN <<Head(pairs)[2]>> \o QueryValues(Tail(pairs), key)
         ELSE QueryValues(Tail(pairs), key)

\* Object.entries(req.query) as the default parser builds req.query: one
\* entry per key; its value is a string when the key occurs once and an
\* array when it occurs more often.
RECURSIVE ParsedEntries(_, _)
ParsedEntries(pairs, keys) ==
    IF keys = <<>> THEN <<>>
    ELSE LET vs == QueryValues(pairs, Head(keys)) IN
         << [key |-> Head(keys), isString |-> Len(vs) = 1, values |-> vs] >>
           \o ParsedEntries(pairs, Tail(keys))

ReqQueryEntries(pairs) == ParsedEntries(pairs, KeysInOrder(pairs, {}))

\* The forEach of lines 50-54: url.searchParams.append for the string values.
RECURSIVE AppendStrings(_, _)
AppendStrings(search, entries) ==
    IF entries = <<>> THEN search
    ELSE IF Head(entries).isString
         THEN AppendStrings(Append(search, <<Head(entries).key, Head(entries).values[1]>>),
                            Tail(entries))
         ELSE AppendStrings(search, Tail(entries))

\* The search parameters of the URL built for req: new URL(req.url, base)
\* carries the query string of req.url; then lines 47-55.
BuildSearch(req) ==
    LET fromUrl == req.query IN
    IF req.parser = "raw" THEN req.query
    ELSE IF req.parser = "qs" THEN AppendStrings(fromUrl, ReqQueryEntries(req.query))
    ELSE fromUrl

\* new Request(url, {method, body: Readable.toWeb(req), ...}) throws a
\* TypeError for a GET or HEAD request, since the body is never null.
RequestConstructorThrows(method, hasBody) ==
    hasBody /\ method \in {"GET", "HEAD"}

HeaderValueValid(value) == \A i \in 1..Len(value) : value[i] # "ctl"

\* res.setHeader for the entries in turn: the writes made, up to the first
\* entry node refuses.
RECURSIVE SetHeaders(_)
SetHeaders(entries) ==
    IF entries = <<>> THEN [writes |-> <<>>, threw |-> FALSE]
    ELSE IF ~HeaderValueValid(Head(entries).value)
         THEN [writes |-> <<>>, threw |-> TRUE]
         ELSE LET rest == SetHeaders(Tail(entries)) IN
              [writes |-> << [op |-> "setHeader", name |-> Head(entries).name,
                              value |-> Head(entries).value] >> \o rest.writes,
               threw |-> rest.threw]

\* The .then callback of lines 70-80 on response: the writes it makes on
\* res, and whether it threw before it was through.
WriteResponse(response) ==
    LET status == << [op |-> "status", code |-> response.status] >>
        hs == SetHeaders(HeadersEntries(response.headers))
    IN
    IF hs.threw THEN [writes |-> status \o hs.writes, threw |-> TRUE]
    ELSE IF response.body.state = "null"
         THEN [writes |-> status \o hs.writes \o << [op |-> "end"] >>, threw |-> FALSE]
    ELSE IF response.body.state = "locked"
         THEN [writes |-> status \o hs.writes, threw |-> TRUE]
    ELSE [writes |-> status \o hs.writes \o << [op |-> "pipe", text |-> response.body.text] >>,
          threw |-> FALSE]

NoInit == [defined |-> FALSE, params |-> <<>>]

\* The values matched from the path /things/{thingId}.
PathParameters == {[thingId |-> v] : v \in {<<"1">>, <<"2">>}}

ExpressRequests ==
    [method : ExpressMethods, query : Queries, parser : QueryParsers,
     params : PathParameters]

IdleRequest ==
    [method |-> "", query |-> <<>>, parser |-> "", params |-> <<>>]

IdleOutcome == [kind |-> "none"]

IdleExpress ==
    [pc |-> "idle", req |-> IdleRequest, search |-> <<>>, outcome |-> IdleOutcome,
     calls |-> 0, init |-> NoInit, eh |-> [settled |-> "none"],
     res |-> <<>>, next |-> 0]

(***************************************************************************)
(* The gateway adapter: toProxyHandler, toRequest, toResult.               *)
(***************************************************************************)
Events ==
    [method : ExpressMethods, hasBody : BOOLEAN, pathParameters : PathParameters]

\* toResult(response): the promise it returns. response.text() rejects when
\* the body is locked or already read.
toResult(response) ==
    IF response.body.state = "locked"
    THEN [settled |-> "rejected"]
    ELSE [settled |-> "resolved",
          result |-> [statusCode |-> response.status,
                      headers |-> ObjectFromEntries(HeadersEntries(response.headers)),
                      body |-> IF response.body.state = "null" THEN ""
                               ELSE response.body.text,
                      isBase64Encoded |-> FALSE]]

\* The proxy handler of lines 123-133 on event, the fetch handler behaving
\* as outcome says. The promise of toResult(response) is returned from inside
\* the try block without being awaited, so its rejection is the proxy
\* handler's own.
ProxyHandler(event, outcome) ==
    LET caught(error) == toResult(toJsonErrorResponse(toHttpError(error))) IN
    IF RequestConstructorThrows(event.method, event.hasBody)
    THEN [calls |-> 0, init |-> NoInit,
          promise |-> caught([type |-> "Error", status |-> 0])]
    ELSE [calls |-> 1, init |-> NoInit,
          promise |-> IF outcome.kind = "return" THEN toResult(outcome.response)
                      ELSE caught(outcome.value)]

IdleLambda ==
    [pc |-> "idle", event |-> [method |-> "", hasBody |-> FALSE, pathParameters |-> <<>>],
     outcome |-> IdleOutcome, calls |-> 0, init |-> NoInit,
     promise |-> [settled |-> "none"]]

(***************************************************************************)
(* The specifications.                                                     *)
(***************************************************************************)
IdleEndpoint == [method |-> <<>>, pathPattern |-> <<>>]

IdleCall == [op |-> "none"]

InitValidator ==
    /\ vcall = IdleCall
    /\ endpoint = IdleEndpoint
    /\ router = {}
    /\ express = IdleExpress
    /\ lambda = IdleLambda

ValidateParams ==
    /\ vcall.op = "none"
    /\ \E contract \in Contracts, raw \in RawParams :
         vcall' = [op |-> "params", contract |-> contract, raw |-> raw,
                   result |-> validateParams(contract, raw)]
    /\ UNCHANGED <<endpoint, router, express, lambda>>

ValidateBody ==
    /\ vcall.op = "none"
    /\ \E contract \in Contracts, request \in Requests :
         vcall' = [op |-> "body", contract |-> contract, request |-> request,
                   result |-> validateBody(contract, request)]
    /\ UNCHANGED <<endpoint, router, express, lambda>>

ValidateResponse ==
    /\ vcall.op = "none"
    /\ \E contract \in Contracts, response \in Responses :
         vcall' = [op |-> "validate", contract |-> contract, response |-> response,
                   result |-> validateResponse(contract, response)]
    /\ UNCHANGED <<endpoint, router, express, lambda>>

ThingHandler ==
    /\ vcall.op = "none"
    /\ \E input \in Requests, params \in ThingParams :
         vcall' = [op |-> "thingHandler", input |-> input, params |-> params,
                   result |-> thingHandler(input, params)]
    /\ UNCHANGED <<endpoint, router, express, lambda>>

\* The caller takes the outcome; the validator keeps nothing of the call.
Return ==
    /\ vcall.op # "none"
    /\ vcall' = IdleCall
    /\ UNCHANGED <<endpoint, router, express, lambda>>

NextValidator ==
    ValidateParams \/ ValidateBody \/ ValidateResponse \/ ThingHandler \/ Return

SpecValidator == InitValidator /\ [][NextValidator]_vars

InitRoute ==
    /\ endpoint \in [method : HttpMethods, pathPattern : PathTemplates]
    /\ router = {}
    /\ vcall = IdleCall
    /\ express = IdleExpress
    /\ lambda = IdleLambda

AddRoute ==
    /\ router = {}
    /\ router' = router \cup {Registration(endpoint)}
    /\ UNCHANGED <<endpoint, vcall, express, lambda>>

NextRoute == AddRoute

SpecRoute == InitRoute /\ [][NextRoute]_vars

InitExpress ==
    /\ express = IdleExpress
    /\ endpoint = IdleEndpoint
    /\ router = {}
    /\ vcall = IdleCall
    /\ lambda = IdleLambda

\* The router calls the registered callback (lines 42-69): the URL and the
\* Request are built and the wrapped handler is called. When the Request
\* constructor throws, the router itself passes the error to next.
ExpressCallback ==
    /\ express.pc = "idle"
    /\ \E req \in ExpressRequests, outcome \in HandlerOutcomes :
         express' =
           IF RequestConstructorThrows(req.method, TRUE)
           THEN [IdleExpress EXCEPT !.pc = "done", !.req = req,
                                    !.search = BuildSearch(req), !.next = 1]
           ELSE [IdleExpress EXCEPT !.pc = "called", !.req = req,
                                    !.search = BuildSearch(req), !.outcome = outcome,
                                    !.calls = 1, !.init = NoInit,
                                    !.eh = InvokeWrapped(outcome)]
    /\ UNCHANGED <<endpoint, router, vcall, lambda>>

\* The promise of eh(request) settles: the .then callback of lines 70-80
\* runs when it is fulfilled and is skipped when it is rejected.
ExpressThen ==
    /\ express.pc = "called"
    /\ express' =
         IF express.eh.settled = "fulfilled"
         THEN LET w == WriteResponse(express.eh.response) IN
              [express EXCEPT !.res = w.writes,
                              !.pc = IF w.threw THEN "threw" ELSE "done"]
         ELSE [express EXCEPT !.pc = "threw"]
    /\ UNCHANGED <<endpoint, router, vcall, lambda>>

\* .catch(next) (line 81)
ExpressCatch ==
    /\ express.pc = "threw"
    /\ express' = [express EXCEPT !.next = @ + 1, !.pc = "done"]
    /\ UNCHANGED <<endpoint, router, vcall, lambda>>

\* The request is over; the next one may come.
ExpressDone ==
    /\ express.pc = "done"
    /\ express' = IdleExpress
    /\ UNCHANGED <<endpoint, router, vcall, lambda>>

NextExpress == ExpressCallback \/ ExpressThen \/ ExpressCatch \/ ExpressDone

SpecExpress == InitExpress /\ [][NextExpress]_vars

InitLambda ==
    /\ lambda = IdleLambda
    /\ endpoint = IdleEndpoint
    /\ router = {}
    /\ vcall = IdleCall
    /\ express = IdleExpress

\* The gateway invokes the proxy handler with an event.
Invoke ==
    /\ lambda.pc = "idle"
    /\ \E event \in Events, outcome \in HandlerOutcomes :
         LET r == ProxyHandler(event, outcome) IN
         lambda' = [pc |-> "settled", event |-> event, outcome |-> outcome,
                    calls |-> r.calls, init |-> r.init, promise |-> r.promise]
    /\ UNCHANGED <<endpoint, router, vcall, express>>

\* The invocation is over; the next event may come.
LambdaDone ==
    /\ lambda.pc = "settled"
    /\ lambda' = IdleLambda
    /\ UNCHANGED <<endpoint, router, vcall, express>>

NextLambda == Invoke \/ LambdaDone

SpecLambda == InitLambda /\ [][NextLambda]_vars

(***************************************************************************)
(* Properties of the Validator (SpecValidator).                            *)
(***************************************************************************)

\* Field f of a schema is violated by the object: a required member is
\* missing, or the member's text does not match the field's pattern.
FieldViolated(f, obj) ==
    \/ f.name \notin DOMAIN obj /\ ~f.optional
    \/ f.name \in DOMAIN obj /\ ~RegexTest(f.regex, obj[f.name])

ViolatedFields(schema, obj) ==
    {i \in 1..Len(schema) : FieldViolated(schema[i], obj)}

DeclaredStatuses(contract) ==
    {contract.responses[i].status : i \in 1..Len(contract.responses)}

DeclaredBodyTypes(contract) ==
    IF contract.body.declared
    THEN {contract.body.content[i].type : i \in 1..Len(contract.body.content)}
    ELSE {}

IsInternal(result) ==
    /\ ~result.ok
    /\ result.error.kind = "Internal"
    /\ result.error.status = 500
    /\ result.error.status \notin 400..499

\* A request the example handler accepts and answers with the bad response:
\* thingId is "2", the body is JSON that satisfies the body schema.
AsksForBadResponse ==
    /\ vcall.op = "thingHandler"
    /\ vcall.params.defined
    /\ vcall.params.obj["thingId"] = <<"2">>
    /\ vcall.input.contentType = JsonType
    /\ vcall.input.body.kind = "json"
    /\ DOMAIN vcall.input.body.obj = {"name", "description"}
    /\ vcall.input.body.obj["name"] = <<"x">>
    /\ vcall.input.body.obj["description"] = <<"x">>

\* C1: every failure of validateResponse is the Internal kind with status
\* 500, never a 4xx; validateResponse fails when the response's status is not
\* declared, when its content type is not declared for its status, and when
\* its JSON body violates the declared schema; the example handler's status
\* 200 response with body {"foo":"bar"} is such a failure.
C1_ResponseFailuresAreInternal ==
    /\ vcall.op = "validate" =>
         LET c == vcall.contract
             r == vcall.response
             type == NormalizeContentType(r.contentType)
             defs == {i \in 1..Len(c.responses) : c.responses[i].status = r.status}
         IN
         /\ ~vcall.result.ok => IsInternal(vcall.result)
         /\ r.status \notin DeclaredStatuses(c) => IsInternal(vcall.result)
         /\ \A i \in defs :
              LET content == c.responses[i].def.content
                  match == {k \in 1..Len(content) : content[k].type = type}
              IN
              /\ content # <<>> /\ match = {} => IsInternal(vcall.result)
              /\ \A k \in match :
                   /\ r.body.kind = "json"
                   /\ ViolatedFields(content[k].schema, r.body.obj) # {}
                   => IsInternal(vcall.result)
    /\ AsksForBadResponse => IsInternal(vcall.result)

C1_Witness ==
    /\ vcall.op = "validate"
    /\ vcall.contract = routeConfig
    /\ vcall.response.status = 200
    /\ vcall.response.contentType = JsonType
    /\ vcall.response.body.kind = "json"
    /\ DOMAIN vcall.response.body.obj = {"foo"}
    /\ IsInternal(vcall.result)

IsUnsupportedMediaType(result) ==
    /\ ~result.ok
    /\ result.error.kind = "UnsupportedMediaType"
    /\ result.error.status = 415

\* A request with content type text/plain that the example handler is called
\* with, its params being valid.
SendsTextPlain ==
    /\ vcall.op = "thingHandler"
    /\ vcall.params.defined
    /\ vcall.params.obj["thingId"] = <<"1">>
    /\ NormalizeContentType(vcall.input.contentType) = "text/plain"

\* C2 as stated: for all route contracts, a request whose parameter-stripped
\* content type is not one the contract declares for its request body makes
\* validateBody raise UnsupportedMediaType (415), whatever the body is.
C2_Original ==
    /\ vcall.op = "body"
    /\ NormalizeContentType(vcall.request.contentType)
         \notin DeclaredBodyTypes(vcall.contract)
    => IsUnsupportedMediaType(vcall.result)

\* C2 as amended: for all route contracts that declare a request body, a
\* request whose parameter-stripped content type is not one the contract
\* declares makes validateBody raise UnsupportedMediaType (415), whatever the
\* body is; the example handler answers a text/plain request that way.
C2_UndeclaredTypeIs415 ==
    /\ /\ vcall.op = "body"
       /\ vcall.contract.body.declared
       /\ NormalizeContentType(vcall.request.contentType)
            \notin DeclaredBodyTypes(vcall.contract)
       => IsUnsupportedMediaType(vcall.result)
    /\ SendsTextPlain => IsUnsupportedMediaType(vcall.result)

C2_Witness ==
    /\ SendsTextPlain
    /\ vcall.input.contentType = <<"text/plain", "charset=utf-8">>
    /\ vcall.input.body.kind = "json"
    /\ DOMAIN vcall.input.body.obj = {"name", "description"}
    /\ vcall.input.body.obj["name"] = <<"x">>
    /\ vcall.input.body.obj["description"] = <<"x">>
    /\ IsUnsupportedMediaType(vcall.result)

\* C3: with a declared params schema and a raw string-valued mapping,
\* validateParams succeeds, returning the parsed params, exactly when no field
\* of the schema is violated; when it fails it raises UnprocessableEntity
\* (422) whose issues are exactly one per violated field, each with that
\* field as its path. For the example route thingId "1" succeeds with
\* {thingId: "1"} and thingId "x" fails with one issue on thingId.
C3_ParamsValidation ==
    /\ vcall.op = "params" /\ vcall.contract.params.declared /\ vcall.raw.defined =>
         LET schema == vcall.contract.params.schema
             obj == vcall.raw.obj
             bad == ViolatedFields(schema, obj)
             res == vcall.result
         IN
         /\ res.ok <=> bad = {}
         /\ res.ok =>
              /\ res.value.defined
              /\ \A i \in 1..Len(schema) :
                   schema[i].name \in DOMAIN obj =>
                     /\ schema[i].name \in DOMAIN res.value.obj
                     /\ res.value.obj[schema[i].name] = obj[schema[i].name]
         /\ ~res.ok =>
              /\ res.error.kind = "UnprocessableEntity"
              /\ res.error.status = 422
              /\ Len(res.error.issues) = Cardinality(bad)
              /\ \A i \in bad :
                   Cardinality({k \in 1..Len(res.error.issues) :
                                  res.error.issues[k].path = <<schema[i].name>>}) = 1
    /\ vcall.op = "params" /\ vcall.contract = routeConfig /\ vcall.raw.defined
       /\ DOMAIN vcall.raw.obj = {"thingId"} =>
         /\ vcall.raw.obj["thingId"] = <<"1">> =>
              /\ vcall.result.ok
              /\ vcall.result.value.obj = [thingId |-> <<"1">>]
         /\ vcall.raw.obj["thingId"] = <<"x">> =>
              /\ ~vcall.result.ok
              /\ vcall.result.error.status = 422
              /\ Len(vcall.result.error.issues) = 1
              /\ vcall.result.error.issues[1].path = <<"thingId">>

\* Both fields of a two-field params schema are violated and reported.
C3_Witness ==
    /\ vcall.op = "params"
    /\ vcall.contract.params.declared
    /\ vcall.raw.defined
    /\ Len(vcall.contract.params.schema) = 2
    /\ Cardinality(ViolatedFields(vcall.contract.params.schema, vcall.raw.obj)) = 2
    /\ ~vcall.result.ok
    /\ Len(vcall.result.error.issues) = 2

(***************************************************************************)
(* Properties of route registration (SpecRoute).                           *)
(***************************************************************************)
NameChars == {"a"}

\* The brace at position i opens a placeholder, which is a whole segment of
\* the template: the brace starts the segment, a non-empty name of name
\* characters follows, and the next "}" ends the segment.
OpensPlaceholder(t, i) ==
    /\ t[i] = "{"
    /\ i = 1 \/ t[i - 1] = "/"
    /\ LET j == FirstClose(t, i + 1) IN
       /\ j > i + 1
       /\ \A k \in (i + 1)..(j - 1) : t[k] \in NameChars
       /\ j = Len(t) \/ t[j + 1] = "/"

\* A template in the syntax /segment/{placeholder}/segment: every brace is
\* the opening or the closing brace of a placeholder segment.
WellFormed(t) ==
    /\ \A i \in 1..Len(t) : t[i] = "{" => OpensPlaceholder(t, i)
    /\ \A j \in 1..Len(t) :
         t[j] = "}" => \E i \in 1..(j - 1) :
                          OpensPlaceholder(t, i) /\ FirstClose(t, i + 1) = j

\* The positions of character c in s, in ascending order.
RECURSIVE PositionsFrom(_, _, _)
PositionsFrom(s, c, i) ==
    IF i > Len(s) THEN <<>>
    ELSE IF s[i] = c THEN <<i>> \o PositionsFrom(s, c, i + 1)
    ELSE PositionsFrom(s, c, i + 1)

\* The longest run of name characters of s that starts at position i.
RECURSIVE NameRun(_, _)
NameRun(s, i) ==
    IF i > Len(s) \/ s[i] \notin NameChars THEN <<>>
    ELSE <<s[i]>> \o NameRun(s, i + 1)

\* The placeholder names of a template, in order.
TemplateNames(t) ==
    LET opens == PositionsFrom(t, "{", 1) IN
    [k \in 1..Len(opens) |-> SubSeq(t, opens[k] + 1, FirstClose(t, opens[k] + 1) - 1)]

\* The parameter names of an Express path, in order.
ExpressNames(path) ==
    LET colons == PositionsFrom(path, ":", 1) IN
    [k \in 1..Len(colons) |-> NameRun(path, colons[k] + 1)]

\* The template with every "{" turned into ":" and every "}" dropped.
RECURSIVE BracesToColons(_)
BracesToColons(t) ==
    IF t = <<>> THEN <<>>
    ELSE (IF Head(t) = "{" THEN <<":">>
          ELSE IF Head(t) = "}" THEN <<>>
          ELSE <<Head(t)>>) \o BracesToColons(Tail(t))

UpperOf(c) ==
    CASE c \in {"g", "G"} -> "G" [] c \in {"e", "E"} -> "E" [] c \in {"t", "T"} -> "T"
      [] c \in {"p", "P"} -> "P" [] c \in {"u", "U"} -> "U"

C4_MiddlewareNeverRaises ==
    express.pc # "idle" /\ express.outcome.kind # "none" =>
      /\ express.calls = 1
      /\ express.eh.settled = "fulfilled"
      /\ express.outcome.kind = "return" =>
           express.eh.response = express.outcome.response
      /\ express.outcome.kind \in {"throw", "reject"} =>
           LET e == express.outcome.value
               r == express.eh.response
           IN
           /\ express.outcome.serializerOk =>
                /\ r.status = IF e.type = "ValidationError" THEN e.status ELSE 500
                /\ r.headers = << [name |-> "content-type", value |-> "application/json"] >>
           /\ ~express.outcome.serializerOk =>
                /\ r.status = 500
                /\ r.headers = << [name |-> "content-type", value |-> "text/plain"] >>
                /\ r.body = [state |-> "readable", text |-> "Internal Server Error"]

\* The inner handler rejected with a value that is no Error and the
\* serializer failed too: the wrapped handler answered with the fallback.
C4_Witness ==
    /\ express.pc = "called"
    /\ express.calls = 1
    /\ express.outcome.kind = "reject"
    /\ express.outcome.value.type = "string"
    /\ ~express.outcome.serializerOk
    /\ express.eh = Fulfilled(FallbackResponse)

\* The writes of a complete response: the status, then one setHeader per
\* header entry, then the body piped, or the response ended when there is no
\* body.
IsCompleteWrite(res, response) ==
    LET entries == HeadersEntries(response.headers) IN
    /\ Len(res) = Len(entries) + 2
    /\ res[1] = [op |-> "status", code |-> response.status]
    /\ \A i \in 1..Len(entries) :
         res[i + 1] = [op |-> "setHeader", name |-> entries[i].name,
                       value |-> entries[i].value]
    /\ res[Len(res)] = IF response.body.state = "null" THEN [op |-> "end"]
                       ELSE [op |-> "pipe", text |-> response.body.text]

\* C9 as stated: once a request has been served, the wrapped handler was
\* invoked exactly once and exactly one of two outcomes occurred: the
\* handler's response was written to the Express response (status, then every
\* header, then the body), or next(error) was called and nothing was written.
C9_Original ==
    express.pc = "done" =>
      /\ express.calls = 1
      /\ \/ /\ express.next = 0
            /\ express.eh.settled = "fulfilled"
            /\ IsCompleteWrite(express.res, express.eh.response)
         \/ /\ express.next = 1
            /\ express.res = <<>>

\* How often the pair occurs among the search parameters.
Occurrences(search, pair) ==
    Cardinality({i \in 1..Len(search) : search[i] = pair})

\* C10 as stated: the URL of the Request built for an inbound request whose
\* req.query holds the parsed parameters of req.url's query string carries
\* every inbound (key, value) pair as often as the inbound query string does.
C10_Original ==
    express.pc = "called" /\ express.req.parser = "qs" =>
      \A pair \in QueryPairs :
        Occurrences(express.search, pair) = Occurrences(express.req.query, pair)

(***************************************************************************)
(* Properties of the gateway adapter (SpecLambda).                         *)
(***************************************************************************)

\* C5 as stated: for every event the proxy handler invokes the fetch handler
\* at most once and resolves with a result: the transcoded response of the
\* handler when toRequest and the handler succeed, statusCode s when either
\* raises a ValidationError of status s, and statusCode 500 when either
\* raises anything else.
C5_Original ==
    lambda.pc = "settled" =>
      /\ lambda.calls <= 1
      /\ lambda.promise.settled = "resolved"
      /\ lambda.calls = 0 => lambda.promise.result.statusCode = 500
      /\ lambda.calls = 1 /\ lambda.outcome.kind = "return" =>
           lambda.promise.result.statusCode = lambda.outcome.response.status
      /\ lambda.calls = 1 /\ lambda.outcome.kind \in {"throw", "reject"} =>
           lambda.promise.result.statusCode =
             IF lambda.outcome.value.type = "ValidationError"
             THEN lambda.outcome.value.status ELSE 500

\* C6 as stated: the result toResult yields for a response has the response's
\* status, its whole body, every header entry of the response (its name, and
\* its value among the values the result holds for that name), and
\* isBase64Encoded false.
C6_Original ==
    /\ lambda.pc = "settled"
    /\ lambda.calls = 1
    /\ lambda.outcome.kind = "return"
    /\ lambda.promise.settled = "resolved"
    => LET r == lambda.outcome.response
           result == lambda.promise.result
       IN
       /\ result.statusCode = r.status
       /\ result.body = IF r.body.state = "null" THEN "" ELSE r.body.text
       /\ result.isBase64Encoded = FALSE
       /\ \A i \in 1..Len(r.headers) :
            /\ r.headers[i].name \in DOMAIN result.headers
            /\ \E k \in 1..Len(result.headers[r.headers[i].name]) :
                 result.headers[r.headers[i].name][k] = r.headers[i].value

\* C8 as stated: when the proxy handler invokes the route handler, the
\* handler is given the routing parameters: the mapping matched from the
\* path, one string entry per placeholder of the route's template.
C8_Original ==
    lambda.pc = "settled" /\ lambda.calls = 1 =>
      /\ lambda.init.defined
      /\ lambda.init.params = lambda.event.pathParameters
      /\ Cardinality(DOMAIN lambda.init.params) = Len(PositionsFrom(routeConfig.path, "{", 1))

====
